---- MODULE Spec2Model ----
(***************************************************************************)
(* Model of crypto/curve25519xsalsa20poly1305.rs: the box API (seal, open, *)
(* their precomputed and in-place variants), the zero-padding convention   *)
(* and the lifetime of secret key material.                                *)
(*                                                                         *)
(* The libsodium primitives behind the extern block are modelled by a      *)
(* small stand-in with the same structure as the NaCl construction:        *)
(* Diffie-Hellman in a small prime group, a keyed byte stream that is      *)
(* xor-ed over the padded buffer, and a one-time polynomial authenticator  *)
(* whose key is the first 32 stream bytes.                                 *)
(***************************************************************************)
EXTENDS Integers, Sequences, FiniteSets, TLC

(* ------------------------------ bounds --------------------------------- *)
MaxLen == 2

(* ------------------------- program constants --------------------------- *)
PUBLICKEYBYTES == 32
SECRETKEYBYTES == 32
NONCEBYTES == 24
PRECOMPUTEDKEYBYTES == 32

Zeros(len) == [i \in 1..len |-> 0]
ZERO == Zeros(32)
BOXZERO == Zeros(16)

(* ------------------------------ bytes ---------------------------------- *)
ByteMod == 256
RECURSIVE XorBits(_, _, _)
XorBits(a, b, bits) ==
  IF bits = 0 THEN 0
  ELSE ((a + b) % 2) + 2 * XorBits(a \div 2, b \div 2, bits - 1)
XorTable == [a \in 0..(ByteMod - 1) |-> [b \in 0..(ByteMod - 1) |-> XorBits(a, b, 8)]]
Xor(a, b) == XorTable[a][b]

Digest(s) == s[1] + 3 * s[2] + 5 * s[Len(s)]

RECURSIVE PowMod(_, _, _)
PowMod(b, e, p) == IF e = 0 THEN 1 % p ELSE (b * PowMod(b, e - 1, p)) % p

(* Option<T> and a failed task *)
None == [tag |-> "None", val |-> <<>>]
Some(v) == [tag |-> "Some", val |-> v]
Panic == [tag |-> "Panic", val |-> <<>>]
Nil == [tag |-> "Nil", val |-> <<>>]

(* --------------------------- the primitive ----------------------------- *)
GroupP == 23
GroupG == 5
PolyP == 521

Scalar(sk) == 1 + ((sk[1] + sk[SECRETKEYBYTES]) % (GroupP - 2))
FieldBytes(x) == [i \in 1..PUBLICKEYBYTES |-> IF i = 1 THEN x ELSE 0]

(* crypto_box_curve25519xsalsa20poly1305_keypair: sk is random, pk = g^sk *)
SkOfSeed(seed) == [i \in 1..SECRETKEYBYTES |-> (seed * 37 + i * 11) % ByteMod]
crypto_box_keypair(seed) ==
  LET sk == SkOfSeed(seed)
  IN [pk |-> FieldBytes(PowMod(GroupG, Scalar(sk), GroupP)), sk |-> sk]

(* crypto_box_curve25519xsalsa20poly1305_beforenm: k = H(pk^sk) *)
crypto_box_beforenm(pk, sk) ==
  LET shared == PowMod(pk[1] % GroupP, Scalar(sk), GroupP)
  IN [i \in 1..PRECOMPUTEDKEYBYTES |-> (shared * 41 + i * 7 + 3) % ByteMod]

(* its c_int result: -1, and k not written, when the shared point pk^sk is
   the zero element, as it is for a public key of all zero bytes *)
crypto_box_beforenm_rc(pk, sk) ==
  IF PowMod(pk[1] % GroupP, Scalar(sk), GroupP) = 0 THEN -1 ELSE 0

StreamMix(kd, nd, i) ==
  (kd * 7 + nd * 13 + i * 29 + ((i * i) % 251)) % ByteMod
crypto_stream(len, n, k) ==
  LET kd == Digest(k)
      nd == Digest(n)
  IN [i \in 1..len |-> StreamMix(kd, nd, i)]

RECURSIVE PolyEval(_, _, _)
PolyEval(msg, i, r) ==
  IF i = 0 THEN 0
  ELSE ((PolyEval(msg, i - 1, r) + msg[i] + ByteMod) * r) % PolyP

(* one-time authenticator: 16-byte tag of msg under a 32-byte one-time key *)
crypto_onetimeauth(msg, key) ==
  LET r == 1 + ((key[1] + ByteMod * key[2]) % (PolyP - 1))
      h == PolyEval(msg, Len(msg), r)
      hb == [i \in 1..16 |-> IF i = 1 THEN h % ByteMod
                               ELSE IF i = 2 THEN h \div ByteMod ELSE 0]
  IN [i \in 1..16 |-> (hb[i] + key[16 + i]) % ByteMod]

(* crypto_box_..._afternm(c, m, mlen, n, k), c and m the same buffer *)
crypto_box_afternm(m, n, k) ==
  IF Len(m) < 32 THEN [rc |-> -1, out |-> m]
  ELSE LET s == crypto_stream(Len(m), n, k)
           x == [i \in 1..Len(m) |-> Xor(m[i], s[i])]
           body == SubSeq(x, 33, Len(m))
           tag == crypto_onetimeauth(body, SubSeq(x, 1, 32))
       IN [rc |-> 0, out |-> Zeros(16) \o tag \o body]

(* crypto_box_..._open_afternm(m, c, clen, n, k), m and c the same buffer *)
crypto_box_open_afternm(c, n, k) ==
  IF Len(c) < 32 THEN [rc |-> -1, out |-> c]
  ELSE LET s == crypto_stream(Len(c), n, k)
           body == SubSeq(c, 33, Len(c))
           tag == crypto_onetimeauth(body, SubSeq(s, 1, 32))
       IN IF tag # SubSeq(c, 17, 32) THEN [rc |-> -1, out |-> c]
          ELSE [rc |-> 0,
                out |-> Zeros(32) \o
                        [i \in 1..Len(body) |-> Xor(body[i], s[32 + i])]]

(* crypto_box_...(c, m, mlen, n, pk, sk) = afternm after beforenm *)
crypto_box(m, n, pk, sk) ==
  IF crypto_box_beforenm_rc(pk, sk) # 0 THEN [rc |-> -1, out |-> m]
  ELSE crypto_box_afternm(m, n, crypto_box_beforenm(pk, sk))
crypto_box_open(c, n, pk, sk) ==
  IF crypto_box_beforenm_rc(pk, sk) # 0 THEN [rc |-> -1, out |-> c]
  ELSE crypto_box_open_afternm(c, n, crypto_box_beforenm(pk, sk))

(* ----------------------- utils::marshal (lib) --------------------------- *)
(* A view into a caller's buffer: bytes [off, off + len) of it *)
View(off, len) == [off |-> off, len |-> len]
ViewBytes(b, v) == SubSeq(b, v.off + 1, v.off + v.len)
Ok(v) == [tag |-> "Ok", val |-> v]

(* marshal(buf, padbefore, f): a fresh buffer dst = padbefore ++ buf is
   handed to the closure f; r being what f did on dst, the bytes of the view
   it returned are the result *)
marshal_dst(buf, padbefore) == padbefore \o buf
marshal(r) ==
  IF r.ret.tag = "Some" THEN Some(ViewBytes(r.buf, r.ret.val)) ELSE r.ret

unwrap(o) == IF o.tag = "Some" THEN Ok(o.val) ELSE Panic

(* ------------------------------ box API -------------------------------- *)
(* m.slice_to(end) fails the task when end > m.len() *)
slice_to_fails(s, end) == end > Len(s)
slice_to(s, end) == SubSeq(s, 1, end)
slice_from(s, start) == View(start, Len(s) - start)

(* An in-place call: what it returns, the caller's buffer afterwards and the
   number of primitive calls it made. *)
InplaceResult(r, b, calls) == [ret |-> r, buf |-> b, prim |-> calls]

gen_keypair(seed) == crypto_box_keypair(seed)

gen_nonce(id) == [i \in 1..NONCEBYTES |-> (id * 53 + i * 3) % ByteMod]

(* seal_inplace with a fault: the zero check covers only BOXZERO.len()
   bytes; the view returned is the whole buffer *)
seal_inplace_short_check(m, n, pk, sk) ==
  IF slice_to_fails(m, Len(ZERO)) THEN InplaceResult(Panic, m, 0)
  ELSE IF slice_to(m, Len(BOXZERO)) # BOXZERO THEN InplaceResult(None, m, 0)
  ELSE LET r == crypto_box(m, n, pk, sk)
       IN InplaceResult(Some(slice_from(r.out, Len(BOXZERO))), r.out, 1)

seal_inplace_whole_view(m, n, pk, sk) ==
  IF slice_to_fails(m, Len(ZERO)) THEN InplaceResult(Panic, m, 0)
  ELSE IF slice_to(m, Len(ZERO)) # ZERO THEN InplaceResult(None, m, 0)
  ELSE LET r == crypto_box(m, n, pk, sk)
       IN InplaceResult(Some(slice_from(r.out, 0)), r.out, 1)

seal_inplace(m, n, pk, sk) ==
  IF slice_to_fails(m, Len(ZERO)) THEN InplaceResult(Panic, m, 0)
  ELSE IF slice_to(m, Len(ZERO)) # ZERO THEN InplaceResult(None, m, 0)
  ELSE LET r == crypto_box(m, n, pk, sk)
       IN InplaceResult(Some(slice_from(r.out, Len(BOXZERO))), r.out, 1)

(* seal with a fault: the buffer is padded with BOXZERO, not ZERO *)
seal_boxzero_pad(m, n, pk, sk) ==
  unwrap(marshal(seal_inplace(marshal_dst(m, BOXZERO), n, pk, sk)))

seal(m, n, pk, sk) ==
  unwrap(marshal(seal_inplace(marshal_dst(m, ZERO), n, pk, sk)))

(* open_inplace with a fault: the view starts at BOXZERO.len(); the
   primitive's return code is not looked at *)
open_inplace_boxzero_view(c, n, pk, sk) ==
  IF slice_to_fails(c, Len(BOXZERO)) THEN InplaceResult(Panic, c, 0)
  ELSE IF slice_to(c, Len(BOXZERO)) # BOXZERO THEN InplaceResult(None, c, 0)
  ELSE LET r == crypto_box_open(c, n, pk, sk)
       IN IF r.rc = 0
          THEN InplaceResult(Some(slice_from(r.out, Len(BOXZERO))), r.out, 1)
          ELSE InplaceResult(None, r.out, 1)

open_inplace_unchecked(c, n, pk, sk) ==
  IF slice_to_fails(c, Len(BOXZERO)) THEN InplaceResult(Panic, c, 0)
  ELSE IF slice_to(c, Len(BOXZERO)) # BOXZERO THEN InplaceResult(None, c, 0)
  ELSE LET r == crypto_box_open(c, n, pk, sk)
       IN InplaceResult(Some(slice_from(r.out, Len(ZERO))), r.out, 1)

(* open_inplace with a fault: the zero check covers ZERO.len() bytes *)
open_inplace_zero_check(c, n, pk, sk) ==
  IF slice_to_fails(c, Len(ZERO)) THEN InplaceResult(Panic, c, 0)
  ELSE IF slice_to(c, Len(ZERO)) # ZERO THEN InplaceResult(None, c, 0)
  ELSE LET r == crypto_box_open(c, n, pk, sk)
       IN IF r.rc = 0
          THEN InplaceResult(Some(slice_from(r.out, Len(ZERO))), r.out, 1)
          ELSE InplaceResult(None, r.out, 1)

open_inplace(c, n, pk, sk) ==
  IF slice_to_fails(c, Len(BOXZERO)) THEN InplaceResult(Panic, c, 0)
  ELSE IF slice_to(c, Len(BOXZERO)) # BOXZERO THEN InplaceResult(None, c, 0)
  ELSE LET r == crypto_box_open(c, n, pk, sk)
       IN IF r.rc = 0
          THEN InplaceResult(Some(slice_from(r.out, Len(ZERO))), r.out, 1)
          ELSE InplaceResult(None, r.out, 1)

open(c, n, pk, sk) ==
  marshal(open_inplace(marshal_dst(c, BOXZERO), n, pk, sk))

(* precompute with a fault: the key arguments are passed in the other order *)
precompute_swapped(pk, sk) == crypto_box_beforenm(sk, pk)

(* let mut k = [0u8, ..PRECOMPUTEDKEYBYTES]; the primitive writes k when it
   succeeds; its result is dropped and PrecomputedKey(k) returned either way *)
precompute(pk, sk) ==
  IF crypto_box_beforenm_rc(pk, sk) = 0 THEN crypto_box_beforenm(pk, sk)
  ELSE Zeros(PRECOMPUTEDKEYBYTES)

(* seal_precomputed_inplace with a fault: the view starts at ZERO.len() *)
seal_precomputed_inplace_zero_view(m, n, k) ==
  IF slice_to_fails(m, Len(ZERO)) THEN InplaceResult(Panic, m, 0)
  ELSE IF slice_to(m, Len(ZERO)) # ZERO THEN InplaceResult(None, m, 0)
  ELSE LET r == crypto_box_afternm(m, n, k)
       IN InplaceResult(Some(slice_from(r.out, Len(ZERO))), r.out, 1)

seal_precomputed_inplace(m, n, k) ==
  IF slice_to_fails(m, Len(ZERO)) THEN InplaceResult(Panic, m, 0)
  ELSE IF slice_to(m, Len(ZERO)) # ZERO THEN InplaceResult(None, m, 0)
  ELSE LET r == crypto_box_afternm(m, n, k)
       IN InplaceResult(Some(slice_from(r.out, Len(BOXZERO))), r.out, 1)

seal_precomputed(m, n, k) ==
  unwrap(marshal(seal_precomputed_inplace(marshal_dst(m, ZERO), n, k)))

(* open_precomputed_inplace with a fault: the primitive's return code is
   not looked at; the view starts at BOXZERO.len() *)
open_precomputed_inplace_unchecked(c, n, k) ==
  IF slice_to_fails(c, Len(BOXZERO)) THEN InplaceResult(Panic, c, 0)
  ELSE IF slice_to(c, Len(BOXZERO)) # BOXZERO THEN InplaceResult(None, c, 0)
  ELSE LET r == crypto_box_open_afternm(c, n, k)
       IN InplaceResult(Some(slice_from(r.out, Len(ZERO))), r.out, 1)

open_precomputed_inplace_boxzero_view(c, n, k) ==
  IF slice_to_fails(c, Len(BOXZERO)) THEN InplaceResult(Panic, c, 0)
  ELSE IF slice_to(c, Len(BOXZERO)) # BOXZERO THEN InplaceResult(None, c, 0)
  ELSE LET r == crypto_box_open_afternm(c, n, k)
       IN IF r.rc = 0
          THEN InplaceResult(Some(slice_from(r.out, Len(BOXZERO))), r.out, 1)
          ELSE InplaceResult(None, r.out, 1)

open_precomputed_inplace(c, n, k) ==
  IF slice_to_fails(c, Len(BOXZERO)) THEN InplaceResult(Panic, c, 0)
  ELSE IF slice_to(c, Len(BOXZERO)) # BOXZERO THEN InplaceResult(None, c, 0)
  ELSE LET r == crypto_box_open_afternm(c, n, k)
       IN IF r.rc = 0
          THEN InplaceResult(Some(slice_from(r.out, Len(ZERO))), r.out, 1)
          ELSE InplaceResult(None, r.out, 1)

open_precomputed(c, n, k) ==
  marshal(open_precomputed_inplace(marshal_dst(c, BOXZERO), n, k))

(* ------------------------------- state --------------------------------- *)
VARIABLES
  pk,              \* the parties' public keys, <<>> before they are made
  sec,             \* the SecretKey and PrecomputedKey values: life and storage
  stack,           \* what the last callee's frame left below the caller's
  m, n,            \* the message and the nonce in use
  sealed, sealedP, \* what seal / seal_precomputed returned for (m, n)
  c, src, mod,     \* the ciphertext at the receiver, who made it, how changed
  opened, openedP, \* what open / open_precomputed returned for c
  buf, buf0,       \* a caller's in-place buffer, and it before the last call
  ret, prim, op    \* the last in-place call: result, primitive calls, name

keyVars == <<pk, sec, stack>>
boxVars == <<sealed, sealedP, c, src, mod, opened, openedP>>
inVars == <<buf, buf0, ret, prim, op>>
vars == <<keyVars, m, n, boxVars, inVars>>

Seeds == {1, 2}
NonceIds == {1, 2}
MsgBytes == {0, 165}
Masks == {1, 32}
RECURSIVE SeqsUpTo(_, _)
SeqsUpTo(S, len) ==
  IF len = 0 THEN {<<>>}
  ELSE LET shorter == SeqsUpTo(S, len - 1)
       IN shorter \cup {Append(q, x) : q \in {t \in shorter : Len(t) = len - 1}, x \in S}
Msgs == SeqsUpTo(MsgBytes, MaxLen)

Parties == {"A", "B"}
(* skA, skB: the parties' SecretKeys; skC: a clone of skA;
   k1 = precompute(pkB, skA), k2 = precompute(pkA, skB) *)
SecNames == {"skA", "skB", "skC", "k1", "k2"}
Unborn == [life |-> "unborn", mem |-> <<>>]
Born(bytes) == [life |-> "live", mem |-> bytes]
Live(x) == sec[x].life = "live"
Key(x) == sec[x].mem

(* The key bytes a callee binds by value (`&SecretKey(sk)`, `let mut sk`)
   stay in its frame when it returns. Frames of successive calls share the
   same memory: only what the last callee left is kept here. *)
NoFrame == [fn |-> "none", bytes |-> <<>>, of |-> "none"]
ByValue(fn, bytes, of) == [fn |-> fn, bytes |-> bytes, of |-> of]

Intact == [kind |-> "intact", j |-> 0, mask |-> 0]

InitIdleBox ==
  /\ sealed = Nil /\ sealedP = Nil
  /\ c = <<>> /\ src = "none" /\ mod = Intact
  /\ opened = Nil /\ openedP = Nil

InitIdleInplace ==
  /\ buf = <<>> /\ buf0 = <<>>
  /\ ret = Nil /\ prim = 0 /\ op = "none"

(* two parties that have each run gen_keypair() *)
InitKeyed ==
  \E a \in Seeds, b \in Seeds :
    LET kpA == gen_keypair(a)
        kpB == gen_keypair(b)
    IN /\ pk = [p \in Parties |-> IF p = "A" THEN kpA.pk ELSE kpB.pk]
       /\ sec = [x \in SecNames |->
                   IF x = "skA" THEN Born(kpA.sk)
                   ELSE IF x = "skB" THEN Born(kpB.sk) ELSE Unborn]
       /\ stack = ByValue("gen_keypair", kpB.sk, "skB")

(* ---------------------- allocating API: SpecBox ------------------------ *)
InitBox ==
  /\ InitKeyed
  /\ \E id \in NonceIds : n = gen_nonce(id)
  /\ m \in Msgs
  /\ InitIdleBox
  /\ InitIdleInplace

Deliver(r, who) ==
  /\ c' = r.val
  /\ src' = who
  /\ mod' = Intact
  /\ opened' = Nil
  /\ openedP' = Nil

PrecomputeSender ==
  /\ sec["k1"].life = "unborn"
  /\ Live("skA")
  /\ pk["B"] # <<>>
  /\ src = "none"
  /\ sec' = [sec EXCEPT !["k1"] = Born(precompute(pk["B"], Key("skA")))]
  /\ stack' = ByValue("precompute", Key("skA"), "skA")
  /\ UNCHANGED <<pk, m, n, boxVars, inVars>>

PrecomputeReceiver ==
  /\ sec["k2"].life = "unborn"
  /\ Live("skB")
  /\ pk["A"] # <<>>
  /\ src = "none"
  /\ sec' = [sec EXCEPT !["k2"] = Born(precompute(pk["A"], Key("skB")))]
  /\ stack' = ByValue("precompute", Key("skB"), "skB")
  /\ UNCHANGED <<pk, m, n, boxVars, inVars>>

Seal ==
  /\ Live("skA")
  /\ pk["B"] # <<>>
  /\ sealed = Nil
  /\ sealed' = seal(m, n, pk["B"], Key("skA"))
  /\ Deliver(sealed', "seal")
  /\ stack' = ByValue("seal_inplace", Key("skA"), "skA")
  /\ UNCHANGED <<pk, sec, m, n, sealedP, inVars>>

SealPrecomputed ==
  /\ Live("k1")
  /\ sealedP = Nil
  /\ sealedP' = seal_precomputed(m, n, Key("k1"))
  /\ Deliver(sealedP', "seal_precomputed")
  /\ stack' = ByValue("seal_precomputed_inplace", Key("k1"), "k1")
  /\ UNCHANGED <<pk, sec, m, n, sealed, inVars>>

(* c[j] ^= mask, as the tamper tests do *)
Tamper(j, mask) ==
  /\ src # "none"
  /\ mod.kind = "intact"
  /\ j \in 1..Len(c)
  /\ c' = [c EXCEPT ![j] = Xor(c[j], mask)]
  /\ mod' = [kind |-> "flipped", j |-> j, mask |-> mask]
  /\ opened' = Nil /\ openedP' = Nil
  /\ UNCHANGED <<keyVars, m, n, sealed, sealedP, src, inVars>>

Restore ==
  /\ mod.kind = "flipped"
  /\ c' = [c EXCEPT ![mod.j] = Xor(c[mod.j], mod.mask)]
  /\ mod' = [kind |-> "restored", j |-> 0, mask |-> 0]
  /\ opened' = Nil /\ openedP' = Nil
  /\ UNCHANGED <<keyVars, m, n, sealed, sealedP, src, inVars>>

(* the receiver is handed only the first len bytes of c *)
Truncate(len) ==
  /\ src # "none"
  /\ mod.kind = "intact"
  /\ len < Len(c)
  /\ c' = SubSeq(c, 1, len)
  /\ mod' = [kind |-> "cut", j |-> len, mask |-> 0]
  /\ opened' = Nil /\ openedP' = Nil
  /\ UNCHANGED <<keyVars, m, n, sealed, sealedP, src, inVars>>

Open ==
  /\ src # "none"
  /\ Live("skB")
  /\ pk["A"] # <<>>
  /\ opened = Nil
  /\ opened' = open(c, n, pk["A"], Key("skB"))
  /\ stack' = ByValue("open_inplace", Key("skB"), "skB")
  /\ UNCHANGED <<pk, sec, m, n, sealed, sealedP, c, src, mod, openedP, inVars>>

OpenPrecomputed ==
  /\ src # "none"
  /\ Live("k2")
  /\ openedP = Nil
  /\ openedP' = open_precomputed(c, n, Key("k2"))
  /\ stack' = ByValue("open_precomputed_inplace", Key("k2"), "k2")
  /\ UNCHANGED <<pk, sec, m, n, sealed, sealedP, c, src, mod, opened, inVars>>

CutLens == {0, 15, 16}

NextBox ==
  \/ PrecomputeSender
  \/ PrecomputeReceiver
  \/ Seal
  \/ SealPrecomputed
  \/ \E j \in 1..(MaxLen + 16), mask \in Masks : Tamper(j, mask)
  \/ Restore
  \/ \E len \in CutLens : Truncate(len)
  \/ Open
  \/ OpenPrecomputed

SpecBox == InitBox /\ [][NextBox]_vars

(* ----------------------- in-place API: SpecInplace --------------------- *)
ShortLens == {0, 15, 16, 31}
PokeAt == {1, 16, 17, 32, 33}
SealOps == {"seal_inplace", "seal_precomputed_inplace"}
OpenOps == {"open_inplace", "open_precomputed_inplace"}

(* the caller fills its buffer: 32 zero bytes and the message, or only the
   first len bytes of that *)
Load(len) ==
  /\ len <= 32 + Len(m)
  /\ buf' = SubSeq(ZERO \o m, 1, len)
  /\ buf0' = buf'
  /\ ret' = Nil /\ prim' = 0 /\ op' = "load"
  /\ UNCHANGED <<keyVars, m, n, boxVars>>

(* the caller flips a bit of one byte of its buffer *)
Poke(p) ==
  /\ op \in SealOps \cup {"load"}
  /\ ret.tag \in {"Nil", "Some"}
  /\ p <= Len(buf)
  /\ buf' = [buf EXCEPT ![p] = Xor(buf[p], 32)]
  /\ buf0' = buf'
  /\ ret' = Nil /\ prim' = 0 /\ op' = "poke"
  /\ UNCHANGED <<keyVars, m, n, boxVars>>

Called(r, name) ==
  /\ buf0' = buf
  /\ buf' = r.buf
  /\ ret' = r.ret
  /\ prim' = r.prim
  /\ op' = name

CanCall == op # "none" /\ ret.tag # "Panic"

SealInplace ==
  /\ CanCall
  /\ Live("skA")
  /\ Called(seal_inplace(buf, n, pk["B"], Key("skA")), "seal_inplace")
  /\ stack' = ByValue("seal_inplace", Key("skA"), "skA")
  /\ UNCHANGED <<pk, sec, m, n, boxVars>>

OpenInplace ==
  /\ CanCall
  /\ Live("skB")
  /\ Called(open_inplace(buf, n, pk["A"], Key("skB")), "open_inplace")
  /\ stack' = ByValue("open_inplace", Key("skB"), "skB")
  /\ UNCHANGED <<pk, sec, m, n, boxVars>>

SealPrecomputedInplace ==
  /\ CanCall
  /\ Live("k1")
  /\ Called(seal_precomputed_inplace(buf, n, Key("k1")), "seal_precomputed_inplace")
  /\ stack' = ByValue("seal_precomputed_inplace", Key("k1"), "k1")
  /\ UNCHANGED <<pk, sec, m, n, boxVars>>

OpenPrecomputedInplace ==
  /\ CanCall
  /\ Live("k2")
  /\ Called(open_precomputed_inplace(buf, n, Key("k2")), "open_precomputed_inplace")
  /\ stack' = ByValue("open_precomputed_inplace", Key("k2"), "k2")
  /\ UNCHANGED <<pk, sec, m, n, boxVars>>

NextInplace ==
  \/ PrecomputeSender
  \/ PrecomputeReceiver
  \/ \E len \in ShortLens \cup {32 + Len(m)} : Load(len)
  \/ \E p \in PokeAt : Poke(p)
  \/ SealInplace
  \/ OpenInplace
  \/ SealPrecomputedInplace
  \/ OpenPrecomputedInplace

SpecInplace == InitBox /\ [][NextInplace]_vars

(* --------------------- lifetime of secrets: SpecKeys ------------------- *)
SkName(p) == IF p = "A" THEN "skA" ELSE "skB"
LiteralSk == [i \in 1..SECRETKEYBYTES |-> (119 + 7 * i) % ByteMod]

InitKeys ==
  /\ pk = [p \in Parties |-> <<>>]
  /\ sec = [x \in SecNames |-> Unborn]
  /\ stack = NoFrame
  /\ n = gen_nonce(1)
  /\ m \in {q \in Msgs : Len(q) = MaxLen}
  /\ InitIdleBox
  /\ InitIdleInplace

(* let (pk, sk) = gen_keypair() *)
GenKeypair(p, seed) ==
  /\ sec[SkName(p)].life = "unborn"
  /\ LET kp == gen_keypair(seed)
     IN /\ pk' = [pk EXCEPT ![p] = kp.pk]
        /\ sec' = [sec EXCEPT ![SkName(p)] = Born(kp.sk)]
        /\ stack' = ByValue("gen_keypair", kp.sk, SkName(p))
  /\ UNCHANGED <<m, n, boxVars, inVars>>

(* let sk = SecretKey([0x77, ...]); let pk = PublicKey([0x85, ...]) *)
Literal(p) ==
  /\ sec[SkName(p)].life = "unborn"
  /\ pk' = [pk EXCEPT ![p] = FieldBytes(PowMod(GroupG, Scalar(LiteralSk), GroupP))]
  /\ sec' = [sec EXCEPT ![SkName(p)] = Born(LiteralSk)]
  /\ UNCHANGED <<stack, m, n, boxVars, inVars>>

(* let skC = skA.clone() *)
CloneKey ==
  /\ Live("skA")
  /\ sec["skC"].life = "unborn"
  /\ sec' = [sec EXCEPT !["skC"] = Born(Key("skA"))]
  /\ UNCHANGED <<pk, stack, m, n, boxVars, inVars>>

(* x goes out of scope: Drop::drop overwrites its bytes with zero *)
Drop(x) ==
  /\ Live(x)
  /\ sec' = [sec EXCEPT ![x] = [life |-> "dropped", mem |-> Zeros(Len(Key(x)))]]
  /\ UNCHANGED <<pk, stack, m, n, boxVars, inVars>>

NextKeys ==
  \/ \E p \in Parties, seed \in Seeds : GenKeypair(p, seed)
  \/ Literal("A")
  \/ CloneKey
  \/ PrecomputeSender
  \/ PrecomputeReceiver
  \/ Seal
  \/ SealPrecomputed
  \/ Open
  \/ OpenPrecomputed
  \/ \E x \in SecNames : Drop(x)

SpecKeys == InitKeys /\ [][NextKeys]_vars

(* ------------- a peer's key of low order: SpecWeakKey ------------------ *)
(* PublicKey([0u8, ..PUBLICKEYBYTES]): the tuple field is pub, so any 32
   bytes received from a peer can be made a PublicKey *)
WeakPk == Zeros(PUBLICKEYBYTES)

(* before anything is computed, p's public key as the other side holds it is
   replaced by the bytes a peer sent *)
ReceiveWeakKey(p) ==
  /\ pk[p] # WeakPk
  /\ sec["k1"].life = "unborn" /\ sec["k2"].life = "unborn"
  /\ src = "none" /\ op = "none"
  /\ pk' = [pk EXCEPT ![p] = WeakPk]
  /\ UNCHANGED <<sec, stack, m, n, boxVars, inVars>>

NextWeakKey ==
  \/ \E p \in Parties : ReceiveWeakKey(p)
  \/ PrecomputeSender
  \/ PrecomputeReceiver
  \/ Seal
  \/ SealPrecomputed
  \/ Open
  \/ OpenPrecomputed
  \/ Load(32 + Len(m))
  \/ SealInplace
  \/ OpenInplace
  \/ SealPrecomputedInplace
  \/ OpenPrecomputedInplace

SpecWeakKey == InitBox /\ [][NextWeakKey]_vars

(* --------------------- properties of the allocating API ---------------- *)

(* C1: round trip. A ciphertext that seal made for (m, n, pkB, skA) and that
   reaches the receiver unchanged is opened by open(c, n, pkA, skB) to
   Some(m), exactly the original bytes, for every m of length 0 upward. *)
RoundTrip ==
  (src = "seal" /\ mod.kind = "intact" /\ opened # Nil) => opened = Some(m)

RoundTripWitness ==
  /\ src = "seal" /\ mod.kind = "intact"
  /\ Key("skA") # Key("skB") /\ Len(m) = MaxLen
  /\ opened = Some(m)

(* C2: tamper detection. With one bit of one byte of a produced ciphertext
   flipped, open (for seal's output) and open_precomputed (for
   seal_precomputed's) return None; with the same bit flipped back they
   return Some(m) again. *)
TamperDetected ==
  /\ (src = "seal" /\ mod.kind = "flipped" /\ opened # Nil) => opened = None
  /\ (src = "seal_precomputed" /\ mod.kind = "flipped" /\ openedP # Nil)
       => openedP = None
  /\ (src = "seal" /\ mod.kind = "restored" /\ opened # Nil) => opened = Some(m)
  /\ (src = "seal_precomputed" /\ mod.kind = "restored" /\ openedP # Nil)
       => openedP = Some(m)

TamperDetectedWitness ==
  /\ src = "seal" /\ mod.kind = "flipped" /\ mod.j = Len(c) /\ Len(m) > 0
  /\ opened = None

(* C3: precompute symmetry. precompute(pkB, skA) and precompute(pkA, skB)
   are the same 32 bytes, for every two key pairs. *)
PrecomputeSymmetric ==
  (Live("k1") /\ Live("k2")) => Key("k1") = Key("k2")

PrecomputeSymmetricWitness ==
  /\ Key("skA") # Key("skB") /\ pk["A"] # pk["B"]
  /\ Live("k1") /\ Len(Key("k1")) = PRECOMPUTEDKEYBYTES
  /\ Live("k2") /\ Len(Key("k2")) = PRECOMPUTEDKEYBYTES

(* C4: precomputed round trip. A ciphertext made by
   seal_precomputed(m, n, k1) and unchanged is opened by
   open_precomputed(c, n, k2) to Some(m), k1 and k2 being the two
   precomputed keys of the same two key pairs. *)
PrecomputedRoundTrip ==
  (src = "seal_precomputed" /\ mod.kind = "intact" /\ openedP # Nil)
    => openedP = Some(m)

PrecomputedRoundTripWitness ==
  /\ src = "seal_precomputed" /\ mod.kind = "intact"
  /\ Key("skA") # Key("skB") /\ Len(m) = MaxLen
  /\ openedP = Some(m)

(* C7: ciphertext length. seal and seal_precomputed return exactly
   Len(m) + 16 bytes (16 for the empty message); a successful open or
   open_precomputed of c returns exactly Len(c) - 16 bytes. *)
CiphertextLength ==
  /\ sealed # Nil => (sealed.tag = "Ok" /\ Len(sealed.val) = Len(m) + 16)
  /\ sealedP # Nil => (sealedP.tag = "Ok" /\ Len(sealedP.val) = Len(m) + 16)
  /\ opened.tag = "Some" => Len(opened.val) = Len(c) - 16
  /\ openedP.tag = "Some" => Len(openedP.val) = Len(c) - 16

CiphertextLengthWitness ==
  /\ m = <<>>
  /\ sealed.tag = "Ok" /\ Len(sealed.val) = 16
  /\ sealedP.tag = "Ok"
  /\ opened.tag = "Some" /\ openedP.tag = "Some"

(* C10: the direct and the precomputed path agree. seal(m, n, pk, sk) and
   seal_precomputed(m, n, precompute(pk, sk)) are the same bytes, and
   open(c, n, pk, sk) and open_precomputed(c, n, precompute(pk, sk)) are both
   None or both the same plaintext, for every c handed to them. *)
PathsAgree ==
  /\ (sealed # Nil /\ sealedP # Nil) => sealed = sealedP
  /\ (opened # Nil /\ openedP # Nil) => opened = openedP

PathsAgreeWitness ==
  /\ sealed # Nil /\ sealedP # Nil
  /\ mod.kind = "flipped"
  /\ opened # Nil /\ openedP # Nil

(* ----------------------- properties of the in-place API ---------------- *)

(* C5: padding precondition. An in-place seal on a buffer whose first 32
   bytes are not all zero, and an in-place open on a buffer whose first 16
   bytes are not all zero, return None, call no primitive and leave every
   byte of the buffer as it was. *)
PaddingPrecondition ==
  /\ (op \in SealOps /\ Len(buf0) >= 32 /\ SubSeq(buf0, 1, 32) # ZERO)
       => (ret = None /\ prim = 0 /\ buf = buf0)
  /\ (op \in OpenOps /\ Len(buf0) >= 16 /\ SubSeq(buf0, 1, 16) # BOXZERO)
       => (ret = None /\ prim = 0 /\ buf = buf0)

PaddingPreconditionWitness ==
  /\ op = "seal_inplace"
  /\ Len(buf0) > 32 /\ SubSeq(buf0, 1, 31) = Zeros(31) /\ buf0[32] # 0
  /\ ret = None

(* C6: failures are values. No call ends in a failed task: every in-place
   call, on a buffer of any length, and every open of a ciphertext of any
   length returns a value. *)
FailuresAreValues ==
  /\ ret.tag # "Panic"
  /\ opened.tag # "Panic"
  /\ openedP.tag # "Panic"

(* C8: in-place view offsets. A successful in-place seal on a buffer of
   length L returns the view [16, L) of that buffer, a successful in-place
   open the view [32, L) of it; the buffer keeps its length. *)
ViewOffsets ==
  /\ (op \in SealOps /\ ret.tag = "Some")
       => (ret.val = View(16, Len(buf0) - 16) /\ Len(buf) = Len(buf0))
  /\ (op \in OpenOps /\ ret.tag = "Some")
       => (ret.val = View(32, Len(buf0) - 32) /\ Len(buf) = Len(buf0))

ViewOffsetsWitness ==
  /\ op = "open_inplace" /\ ret.tag = "Some"
  /\ Len(buf0) = 32 + MaxLen
  /\ ViewBytes(buf, ret.val) = m

(* ----------------------- properties of secret storage ------------------ *)

(* C9: secret zeroization. Once a SecretKey or PrecomputedKey value has gone
   out of scope, every memory location that held its key bytes reads as all
   zero: its own storage, and any copy of its bytes a call made. *)
SecretsZeroized ==
  \A x \in SecNames :
    sec[x].life = "dropped" =>
      /\ sec[x].mem = Zeros(SECRETKEYBYTES)
      /\ stack.of = x => stack.bytes = Zeros(SECRETKEYBYTES)

(* ------------------- failures of the primitive ------------------------- *)

(* C11: a failure of the primitive is fatal. When the primitive reports
   failure (a result other than 0) in precompute or in the encryption step
   of a seal operation, no key and no ciphertext is returned to the caller:
   k1 and k2 are never made from a failed beforenm, seal returns no Ok value
   and the in-place seals no Some view after a failed encryption. *)
PrimitiveFailureFatal ==
  /\ crypto_box_beforenm_rc(pk["B"], Key("skA")) # 0 => ~Live("k1")
  /\ crypto_box_beforenm_rc(pk["A"], Key("skB")) # 0 => ~Live("k2")
  /\ (/\ sealed # Nil
      /\ crypto_box(marshal_dst(m, ZERO), n, pk["B"], Key("skA")).rc # 0)
     => sealed.tag # "Ok"
  /\ (/\ op = "seal_inplace" /\ prim = 1
      /\ crypto_box(buf0, n, pk["B"], Key("skA")).rc # 0)
     => ret.tag # "Some"
  /\ (/\ op = "seal_precomputed_inplace" /\ prim = 1
      /\ crypto_box_afternm(buf0, n, Key("k1")).rc # 0)
     => ret.tag # "Some"

(* ------------------------- totality of seal ---------------------------- *)

(* C12: the allocating seal is total. Whenever seal or seal_precomputed has
   been called on (m, n, keys) it has returned a ciphertext: the buffer it
   builds, ZERO followed by m, has an all-zero ZERO.len() prefix, the in-place
   seal on that buffer returns Some, and the unwrap does not fail. *)
SealTotal ==
  /\ sealed # Nil =>
       /\ slice_to(marshal_dst(m, ZERO), Len(ZERO)) = ZERO
       /\ seal_inplace(marshal_dst(m, ZERO), n, pk["B"], Key("skA")).ret.tag
            = "Some"
       /\ sealed.tag = "Ok"
  /\ sealedP # Nil =>
       /\ slice_to(marshal_dst(m, ZERO), Len(ZERO)) = ZERO
       /\ seal_precomputed_inplace(marshal_dst(m, ZERO), n, Key("k1")).ret.tag
            = "Some"
       /\ sealedP.tag = "Ok"

SealTotalWitness ==
  /\ Len(m) = MaxLen /\ m[1] # 0
  /\ sealed.tag = "Ok" /\ sealedP.tag = "Ok"
  /\ Len(sealed.val) = MaxLen + 16

(* --------------------- round trip in one buffer ------------------------ *)

(* C13: in-place round trip on one buffer. When seal_inplace has returned
   Some on a buffer (32 zero bytes and a message), the first 16 bytes of the
   buffer are zero, and open_inplace called next on the whole of that buffer,
   with the same nonce and the matching keys, returns Some of a view whose
   bytes are the message; the same for seal_precomputed_inplace followed by
   open_precomputed_inplace. *)
InplaceRoundTrip ==
  [][/\ (op \in SealOps /\ ret.tag = "Some")
        => slice_to(buf, Len(BOXZERO)) = BOXZERO
     /\ (\/ op = "seal_inplace" /\ op' = "open_inplace"
         \/ op = "seal_precomputed_inplace" /\ op' = "open_precomputed_inplace")
        => (ret.tag = "Some"
              => /\ ret'.tag = "Some"
                 /\ ViewBytes(buf', ret'.val) = SubSeq(buf0, 33, Len(buf0)))]_vars

InplaceRoundTripWitness ==
  /\ op = "open_precomputed_inplace" /\ ret.tag = "Some"
  /\ Len(m) = MaxLen /\ Live("k1")
  /\ buf0 = seal_precomputed_inplace(ZERO \o m, n, Key("k1")).buf
  /\ buf0 # buf
  /\ ViewBytes(buf, ret.val) = m
====
